---- MODULE Spec2Model ----
(***************************************************************************)
(* ccl::Result<T, E> (lib/ccl/include/ccl/result.hpp) and its client       *)
(* run() (src/run.cpp).                                                    *)
(*                                                                         *)
(* A pool of Result objects of the general path, ResultBase<T, E, false>,  *)
(* is driven through every public operation.  The union members `ok` and   *)
(* `err` are modelled as storages holding at most one live object: <<>>    *)
(* is a storage without a live object, <<v>> one whose object has value v. *)
(* Payload constructor and destructor calls are counted per member, the    *)
(* way an instrumented payload type counts them.                           *)
(***************************************************************************)
EXTENDS Integers, Sequences, FiniteSets, TLC

\* ---------------------------------------------------------------- bounds
NumResults == 2       \* Result objects the caller owns at a time
MaxVal == 2           \* payload values: T in 1..MaxVal, E in -MaxVal..-1
MaxConstructed == 3   \* payload constructions performed in all

Slots == 1..NumResults

\* A payload of either type that has been moved from (its value is
\* unspecified but it is still an object that must be destructed).
Moved == 0

TVals == 1..MaxVal
EVals == {-v : v \in 1..MaxVal}
Payloads == TVals \cup EVals \cup {Moved}

Members == {"ok", "err"}

\* expect() messages and unwrap_or_else() fallbacks the harness passes
Msgs      == {"custom", "Cannot create file"}
Fallbacks == {"negate", "one"}

VARIABLES
    results,      \* Slots -> the Result object in each slot
    trivDtor,     \* member -> std::is_trivially_destructible_v of its type
    constructed,  \* member -> payload constructor calls so far
    destructed,   \* member -> payload destructor calls so far
    ub,           \* a destructor ran on, or a value was read from, a storage without a live object
    last,         \* the operation just performed and its outcome (NoOp: none)
    halted,       \* panic() has terminated the process
    runPc,        \* position of run(): "start", "loop"
    led,          \* the GPIO pin run() toggles
    trivial       \* Slots -> the same Results held in ResultBase<T, E, true>
                  \* storage, while the payload types select it

vars == <<results, trivDtor, constructed, destructed, ub, last, halted, runPc, led,
          trivial>>

\* A slot holding no Result (before construction, after destruction).
NoResult == [alive |-> FALSE, is_ok_ |-> FALSE, ok |-> <<>>, err |-> <<>>]

Other(f) == IF f = "ok" THEN "err" ELSE "ok"

\* ------------------------------------------------- the abstract machine
\* One operation runs on a machine record m: the memory of the pool, the
\* counters, the log of payload events of this operation, the trace of the
\* object the events act on (its value after each event) and the outcome.
Machine ==
    [mem |-> results, constructed |-> constructed, destructed |-> destructed,
     ub |-> ub, log |-> <<>>, trace |-> <<>>, ret |-> <<>>, truth |-> FALSE,
     panicMsg |-> "", fCalls |-> 0, halted |-> FALSE]

Event(ev, slot, at) == [ev |-> ev, slot |-> slot, at |-> at]

\* The statement just executed on the object in slot i is over: the object
\* as it is now is the next entry of the trace.
Traced(m, i) == [m EXCEPT !.trace = Append(@, m.mem[i])]

\* x.~X() on member f of slot i.  Running it on a storage without a live
\* object is undefined behaviour (a double destruct).
DestructorCall(m, i, f) ==
    Traced([m EXCEPT !.mem[i][f] = <<>>,
                     !.destructed[f] = @ + 1,
                     !.ub = @ \/ (m.mem[i][f] = <<>>),
                     !.log = Append(@, Event("destroy", i, f))], i)

\* new (&this->f) auto(v): constructs an object of value v in member f of
\* slot i.  The storage is shared with the other member: a trivially
\* destructible occupant ends its lifetime by the reuse, an occupant with a
\* non-trivial destructor is overwritten without its destructor having run
\* (it stays on the books as live: a leak).
PlacementNew(m, i, f, v) ==
    Traced([m EXCEPT !.mem[i][f] = <<v>>,
                     !.mem[i][Other(f)] =
                         IF trivDtor[Other(f)] THEN <<>> ELSE @,
                     !.constructed[f] = @ + 1,
                     !.log = Append(@, Event("construct", i, f))], i)

\* The value read from member f of slot j; g is what the read yields when
\* the storage holds no live object (undefined behaviour).
Load(m, j, f, g) == IF m.mem[j][f] = <<>> THEN g ELSE m.mem[j][f][1]

LoadUB(m, j, f) == [m EXCEPT !.ub = @ \/ (m.mem[j][f] = <<>>)]

\* Mutant: the source payload is moved from even when it is copied.
Forwarded_Steals(m, j, f, rvalue, marks) ==
    IF m.mem[j][f] # <<>> THEN [m EXCEPT !.mem[j][f] = <<Moved>>] ELSE m

\* Mutant: a move ends the lifetime of the source payload.
Forwarded_EndsSource(m, j, f, rvalue, marks) ==
    IF rvalue THEN [m EXCEPT !.mem[j][f] = <<>>] ELSE m

\* std::forward<R>(other).f used as the source of a payload construction or
\* assignment: with R an rvalue the payload's move operation runs and may
\* leave the source marked as moved-from (marks) or untouched.
Forwarded(m, j, f, rvalue, marks) ==
    IF rvalue /\ marks /\ m.mem[j][f] # <<>>
    THEN [m EXCEPT !.mem[j][f] = <<Moved>>]
    ELSE m

\* Mutant: the payload assignment leaves the destination's value as it was.
PayloadAssign_Keeps(m, i, f, v) ==
    Traced([m EXCEPT !.ub = @ \/ (m.mem[i][f] = <<>>),
                     !.log = Append(@, Event("assign", i, f))], i)

\* this->f = std::forward<R>(other).f: the payload's assignment operator,
\* in place; no payload is constructed or destructed.
PayloadAssign(m, i, f, v) ==
    Traced([m EXCEPT !.mem[i][f] = <<v>>,
                     !.ub = @ \/ (m.mem[i][f] = <<>>),
                     !.log = Append(@, Event("assign", i, f))], i)

\* Mutant: the discriminant is never written.
SetIsOk_Stale(m, i, b) ==
    Traced([m EXCEPT !.log = Append(@, Event(IF b THEN "is_ok_=true" ELSE "is_ok_=false",
                                             i, "is_ok_"))], i)

\* this->is_ok_ = b
SetIsOk(m, i, b) ==
    Traced([m EXCEPT !.mem[i].is_ok_ = b,
                     !.log = Append(@, Event(IF b THEN "is_ok_=true" ELSE "is_ok_=false",
                                             i, "is_ok_"))], i)

\* ------------------------------------------------------- ResultBase<T,E,false>
\* ResultBase(Ok<T>&& ok) : ok { std::move(ok).value() }, is_ok_ { true }
ResultBaseFromOk(m, i, t) ==
    LET a == [m EXCEPT !.mem[i].alive = TRUE]
        b == PlacementNew(a, i, "ok", t)
    IN  SetIsOk(b, i, TRUE)

\* ResultBase(Err<E>&& err) : err { std::move(err).value() }, is_ok_ { false }
ResultBaseFromErr(m, i, e) ==
    LET a == [m EXCEPT !.mem[i].alive = TRUE]
        b == PlacementNew(a, i, "err", e)
    IN  SetIsOk(b, i, FALSE)

\* template <typename R> void construct(R&& other)
construct(m, i, j, rvalue, marks, g) ==
    LET a == SetIsOk([m EXCEPT !.mem[i].alive = TRUE], i, m.mem[j].is_ok_)
        f == IF a.mem[i].is_ok_ THEN "ok" ELSE "err"
        b == LoadUB(a, j, f)
        c == PlacementNew(b, i, f, Load(b, j, f, g))
    IN  Forwarded(c, j, f, rvalue, marks)

\* Mutant: the cross-variant branches construct the new payload without
\* destroying the old one.
assign_NoDestroy(m, i, j, rvalue, marks, g) ==
    LET f == IF m.mem[j].is_ok_ THEN "ok" ELSE "err"
        a == LoadUB(m, j, f)
    IN  IF m.mem[i].is_ok_ = m.mem[j].is_ok_
        THEN Forwarded(PayloadAssign(a, i, f, Load(a, j, f, g)), j, f, rvalue, marks)
        ELSE SetIsOk(Forwarded(PlacementNew(a, i, f, Load(a, j, f, g)),
                               j, f, rvalue, marks),
                     i, m.mem[j].is_ok_)

\* Mutant: every assignment destroys the destination's payload and constructs
\* the new one from the source, whatever the two variants are.
assign_AlwaysReconstruct(m, i, j, rvalue, marks, g) ==
    LET f   == IF m.mem[j].is_ok_ THEN "ok" ELSE "err"
        old == IF m.mem[i].is_ok_ THEN "ok" ELSE "err"
        a   == IF ~trivDtor[old] THEN DestructorCall(m, i, old) ELSE m
        b   == LoadUB(a, j, f)
        c   == Forwarded(PlacementNew(b, i, f, Load(b, j, f, g)), j, f, rvalue, marks)
    IN  SetIsOk(c, i, m.mem[j].is_ok_)

\* Mutant: the cross-variant branches construct the new payload before they
\* destroy the old one.
assign_ConstructFirst(m, i, j, rvalue, marks, g) ==
    LET f == IF m.mem[j].is_ok_ THEN "ok" ELSE "err"
        a == LoadUB(m, j, f)
    IN  IF m.mem[i].is_ok_ = m.mem[j].is_ok_
        THEN Forwarded(PayloadAssign(a, i, f, Load(a, j, f, g)), j, f, rvalue, marks)
        ELSE LET b == Forwarded(PlacementNew(a, i, f, Load(a, j, f, g)),
                                j, f, rvalue, marks)
                 c == IF ~trivDtor[Other(f)]
                      THEN DestructorCall(b, i, Other(f)) ELSE b
             IN  SetIsOk(c, i, m.mem[j].is_ok_)

\* template <typename R> void assign(R&& other)
assign(m, i, j, rvalue, marks, g) ==
    IF m.mem[j].is_ok_
    THEN IF m.mem[i].is_ok_
         THEN LET a == LoadUB(m, j, "ok")
                  b == PayloadAssign(a, i, "ok", Load(a, j, "ok", g))
              IN  Forwarded(b, j, "ok", rvalue, marks)
         ELSE LET a == IF ~trivDtor["err"]
                       THEN DestructorCall(m, i, "err") ELSE m
                  b == LoadUB(a, j, "ok")
                  c == PlacementNew(b, i, "ok", Load(b, j, "ok", g))
                  d == Forwarded(c, j, "ok", rvalue, marks)
              IN  SetIsOk(d, i, TRUE)
    ELSE IF m.mem[i].is_ok_
         THEN LET a == IF ~trivDtor["ok"]
                       THEN DestructorCall(m, i, "ok") ELSE m
                  b == LoadUB(a, j, "err")
                  c == PlacementNew(b, i, "err", Load(b, j, "err", g))
                  d == Forwarded(c, j, "err", rvalue, marks)
              IN  SetIsOk(d, i, FALSE)
         ELSE LET a == LoadUB(m, j, "err")
                  b == PayloadAssign(a, i, "err", Load(a, j, "err", g))
              IN  Forwarded(b, j, "err", rvalue, marks)

\* Mutant: the destructor takes the branch of the other variant.
DtorResultBase_Inverted(m, i) ==
    LET a == IF ~m.mem[i].is_ok_
             THEN IF ~trivDtor["ok"] THEN DestructorCall(m, i, "ok") ELSE m
             ELSE IF ~trivDtor["err"] THEN DestructorCall(m, i, "err") ELSE m
    IN  [a EXCEPT !.mem[i] = NoResult]

\* Mutant: the destructor forgets the err branch.
DtorResultBase_OkOnly(m, i) ==
    LET a == IF m.mem[i].is_ok_ /\ ~trivDtor["ok"]
             THEN DestructorCall(m, i, "ok") ELSE m
    IN  [a EXCEPT !.mem[i] = NoResult]

\* ~ResultBase(); afterwards the object is gone and its slot is free.
DtorResultBase(m, i) ==
    LET a == IF m.mem[i].is_ok_
             THEN IF ~trivDtor["ok"] THEN DestructorCall(m, i, "ok") ELSE m
             ELSE IF ~trivDtor["err"] THEN DestructorCall(m, i, "err") ELSE m
    IN  [a EXCEPT !.mem[i] = NoResult]

\* ------------------------------------------------------------ ccl::panic
\* void panic(std::string_view msg, SourceLocation loc): reports msg and
\* terminates the process without returning (no unwinding).
panic(m, msg) == [m EXCEPT !.panicMsg = msg, !.halted = TRUE]

\* ------------------------------------------------------------ Result<T, E>
\* Value categories of *this an extraction overload is selected by.
Cats == {"&", "const&", "&&", "const&&"}

\* Only a non-const rvalue lets the payload's move operation run.
IsRvalue(cat) == cat = "&&"

\* Mutant: is_ok() answers true whatever the discriminant is.
is_ok_Always(r) == r.is_ok_ \/ r.alive

\* bool is_ok() const
is_ok(r) == r.is_ok_

\* Mutant: is_err() answers like is_ok().
is_err_Same(r) == r.is_ok_

\* bool is_err() const
is_err(r) == ~r.is_ok_

\* Mutant: an extraction from an rvalue ends the lifetime of the payload it
\* hands out.
ReturnMember_Takes(m, i, f, cat, marks, g) ==
    LET a == LoadUB(m, i, f)
        b == [a EXCEPT !.ret = <<Load(a, i, f, g)>>]
    IN  IF IsRvalue(cat) THEN DestructorCall(b, i, f)
        ELSE Forwarded(b, i, f, IsRvalue(cat), marks)

\* return std::forward<Self>(self).f: hands member f of slot i to the
\* caller, who reads it (moving from it when Self is an rvalue).
ReturnMember(m, i, f, cat, marks, g) ==
    LET a == LoadUB(m, i, f)
        b == [a EXCEPT !.ret = <<Load(a, i, f, g)>>]
    IN  Forwarded(b, i, f, IsRvalue(cat), marks)

\* static auto&& unwrap_impl(Self&& self); CCL_UNLIKELY is a branch
\* prediction hint and leaves the condition as it is.
unwrap_impl(m, i, cat, marks, g) ==
    LET a == IF is_err(m.mem[i]) THEN panic(m, "unwrap") ELSE m
    IN  IF a.halted THEN a ELSE ReturnMember(a, i, "ok", cat, marks, g)

\* Mutant: unwrap_err panics with unwrap's message.
unwrap_err_impl_WrongMsg(m, i, cat, marks, g) ==
    LET a == IF is_ok(m.mem[i]) THEN panic(m, "unwrap") ELSE m
    IN  IF a.halted THEN a ELSE ReturnMember(a, i, "err", cat, marks, g)

\* static auto&& unwrap_err_impl(Self&& self)
unwrap_err_impl(m, i, cat, marks, g) ==
    LET a == IF is_ok(m.mem[i]) THEN panic(m, "unwrap_err") ELSE m
    IN  IF a.halted THEN a ELSE ReturnMember(a, i, "err", cat, marks, g)

\* The fallback F f the caller passes to unwrap_or_else: E -> T.
ApplyF(f, e) == IF f = "negate" THEN e * (-1) ELSE 1

\* Mutant: unwrap_or_else on an Err panics instead of calling f.
unwrap_or_else_impl_Panics(m, i, f, cat, marks, g) ==
    IF is_ok(m.mem[i])
    THEN ReturnMember(m, i, "ok", cat, marks, g)
    ELSE panic(m, "unwrap_or_else")

\* Mutant: the condition of the conditional expression is inverted.
unwrap_or_else_impl_Inverted(m, i, f, cat, marks, g) ==
    IF is_err(m.mem[i])
    THEN ReturnMember(m, i, "ok", cat, marks, g)
    ELSE LET a == ReturnMember(m, i, "err", cat, marks, g)
         IN  [a EXCEPT !.ret = <<ApplyF(f, a.ret[1])>>, !.fCalls = @ + 1]

\* static T unwrap_or_else_impl(Self&& self, F f)
unwrap_or_else_impl(m, i, f, cat, marks, g) ==
    IF is_ok(m.mem[i])
    THEN ReturnMember(m, i, "ok", cat, marks, g)
    ELSE LET a == ReturnMember(m, i, "err", cat, marks, g)
         IN  [a EXCEPT !.ret = <<ApplyF(f, a.ret[1])>>, !.fCalls = @ + 1]

\* Mutant: expect panics with the generic message.
expect_impl_Generic(m, i, msg, cat, marks, g) ==
    LET a == IF is_err(m.mem[i]) THEN panic(m, "unwrap") ELSE m
    IN  IF a.halted THEN a ELSE ReturnMember(a, i, "ok", cat, marks, g)

\* static auto&& expect_impl(Self&& self, std::string_view msg)
expect_impl(m, i, msg, cat, marks, g) ==
    LET a == IF is_err(m.mem[i]) THEN panic(m, msg) ELSE m
    IN  IF a.halted THEN a ELSE ReturnMember(a, i, "ok", cat, marks, g)

\* ------------------------------------------------------------- src/run.cpp
\* ResultBase<int, int, true>: the trivial path, constructed from Ok / Err.
TrivialFromOk(t) == [alive |-> TRUE, is_ok_ |-> TRUE, ok |-> <<t>>, err |-> <<>>]

TrivialFromErr(e) == [alive |-> TRUE, is_ok_ |-> FALSE, ok |-> <<>>, err |-> <<e>>]

\* Mutant: the branches are swapped.
result_example_Swapped(success) ==
    IF success THEN TrivialFromErr(-1) ELSE TrivialFromOk(1)

\* Result<int, int> result_example(bool success)
result_example(success) ==
    IF success THEN TrivialFromOk(1) ELSE TrivialFromErr(-1)

\* The machine an operation on a temporary Result r runs on (r at index 0).
Temporary(r) == [Machine EXCEPT !.mem = (0 :> r)]

\* void run(HardwareHandles handles): result_example(true).unwrap();
\* the outcome of the statement before the while (true) loop.
run(g) == unwrap_impl(Temporary(result_example(TRUE)), 0, "&&", FALSE, g)

\* ------------------------------------------------------------------- state
NoOp ==
    [op |-> "init", dst |-> 0, src |-> 0, arg |-> "", cat |-> "", val |-> 0,
     ret |-> <<>>, truth |-> FALSE, panicMsg |-> "", fCalls |-> 0, log |-> <<>>,
     trace |-> <<>>]

\* The payload types do not select the ResultBase<T, E, true> storage.
NoTrivialPath == <<>>

\* has_trivial_copy_move_destruct<T> && has_trivial_copy_move_destruct<E>:
\* both payload types are trivially destructible and trivially copyable and
\* movable, so that no move has left a payload of the pool mem moved-from.
has_trivial_copy_move_destruct(mem) ==
    /\ trivDtor["ok"] /\ trivDtor["err"]
    /\ \A i \in Slots, f \in Members : mem[i][f] # <<Moved>>

\* Mutant: the copy takes the union and leaves the discriminant.
TrivialCopy_UnionOnly(pool, i, j) ==
    [pool EXCEPT ![i] = [pool[j] EXCEPT !.is_ok_ = pool[i].is_ok_]]

\* The implicitly defined copy and move constructors and assignment
\* operators of ResultBase<T, E, true>: the union and the discriminant of
\* the source are copied as a whole.
TrivialCopy(pool, i, j) == [pool EXCEPT ![i] = pool[j]]

\* The operation call performed on the ResultBase<T, E, true> storage.
TrivialPath(pool, call) ==
    CASE call.op = "from_ok"  -> [pool EXCEPT ![call.dst] = TrivialFromOk(call.val)]
      [] call.op = "from_err" -> [pool EXCEPT ![call.dst] = TrivialFromErr(call.val)]
      [] call.op \in {"copy_construct", "move_construct", "copy_assign", "move_assign"}
                              -> TrivialCopy(pool, call.dst, call.src)
      [] call.op = "destroy"  -> [pool EXCEPT ![call.dst] = NoResult]
      [] OTHER                -> pool

Init ==
    /\ results = [i \in Slots |-> NoResult]
    /\ trivDtor \in [Members -> BOOLEAN]
    /\ constructed = [f \in Members |-> 0]
    /\ destructed = [f \in Members |-> 0]
    /\ ub = FALSE
    /\ last = NoOp
    /\ halted = FALSE
    /\ runPc = "start"
    /\ led = FALSE
    /\ trivial = IF has_trivial_copy_move_destruct(results)
                 THEN [i \in Slots |-> NoResult] ELSE NoTrivialPath

\* The outcome m of operation op becomes the state of the program.
Commit(m, call) ==
    /\ m.constructed["ok"] + m.constructed["err"] <= MaxConstructed
    /\ results' = [i \in Slots |-> m.mem[i]]
    /\ constructed' = m.constructed
    /\ destructed' = m.destructed
    /\ ub' = m.ub
    /\ halted' = m.halted
    /\ last' = [call EXCEPT !.ret = m.ret, !.truth = m.truth,
                             !.panicMsg = m.panicMsg, !.fCalls = m.fCalls,
                             !.log = m.log, !.trace = m.trace]
    /\ trivial' = IF trivial # NoTrivialPath /\ has_trivial_copy_move_destruct(m.mem)
                  THEN TrivialPath(trivial, call) ELSE NoTrivialPath
    /\ UNCHANGED <<trivDtor, runPc, led>>

\* The operation the caller performs: its name, the slots of *this (dst) and
\* of the other operand (src), and its arguments.
Call(op, dst, src) == [NoOp EXCEPT !.op = op, !.dst = dst, !.src = src]

\* An operation on a temporary leaves the pool alone.
CommitTemporary(m, op, arg) ==
    /\ halted' = m.halted
    /\ ub' = m.ub
    /\ last' = [NoOp EXCEPT !.op = op, !.arg = arg, !.cat = "&&", !.ret = m.ret,
                            !.panicMsg = m.panicMsg]
    /\ UNCHANGED <<results, trivDtor, constructed, destructed, trivial>>

\* The caller performs one operation at a time and only while the process
\* has not been terminated.
CanOperate == ~halted /\ last = NoOp

\* What a read of a storage without a live object may yield.  Such a read is
\* undefined behaviour and may yield any payload value; dry is the outcome of
\* the operation with one of them, and when that performed no such read the
\* outcome does not depend on the value.
Garbage(dry) == IF dry.ub THEN Payloads ELSE {Moved}

\* Whether the payload's move operation marks its source matters only when
\* the operation is given an rvalue.
Marks(cat) == IF IsRvalue(cat) THEN BOOLEAN ELSE {FALSE}

\* ----------------------------------------------------------------- actions
\* Result<T, E> r = Ok { t };
FromOk ==
    \E i \in Slots, t \in TVals :
        /\ CanOperate /\ ~results[i].alive
        /\ Commit(ResultBaseFromOk(Machine, i, t),
                  [Call("from_ok", i, 0) EXCEPT !.val = t])

\* Result<T, E> r = Err { e };
FromErr ==
    \E i \in Slots, e \in EVals :
        /\ CanOperate /\ ~results[i].alive
        /\ Commit(ResultBaseFromErr(Machine, i, e),
                  [Call("from_err", i, 0) EXCEPT !.val = e])

\* Result<T, E> r { other };         ResultBase(const ResultBase& other)
CopyConstruct ==
    \E i \in Slots, j \in Slots :
        /\ CanOperate /\ ~results[i].alive /\ results[j].alive
        /\ \E g \in Garbage(construct(Machine, i, j, FALSE, FALSE, Moved)) :
               Commit(construct(Machine, i, j, FALSE, FALSE, g),
                      [Call("copy_construct", i, j) EXCEPT !.cat = "const&"])

\* Result<T, E> r { std::move(other) };   ResultBase(ResultBase&& other)
MoveConstruct ==
    \E i \in Slots, j \in Slots, marks \in BOOLEAN :
        /\ CanOperate /\ ~results[i].alive /\ results[j].alive
        /\ \E g \in Garbage(construct(Machine, i, j, TRUE, marks, Moved)) :
               Commit(construct(Machine, i, j, TRUE, marks, g),
                      [Call("move_construct", i, j) EXCEPT !.cat = "&&"])

\* r = other;                        operator=(const ResultBase& other)
CopyAssign ==
    \E i \in Slots, j \in Slots :
        /\ CanOperate /\ results[i].alive /\ results[j].alive
        /\ \E g \in Garbage(assign(Machine, i, j, FALSE, FALSE, Moved)) :
               Commit(assign(Machine, i, j, FALSE, FALSE, g),
                      [Call("copy_assign", i, j) EXCEPT !.cat = "const&"])

\* r = std::move(other);             operator=(ResultBase&& other)
MoveAssign ==
    \E i \in Slots, j \in Slots, marks \in BOOLEAN :
        /\ CanOperate /\ results[i].alive /\ results[j].alive
        /\ \E g \in Garbage(assign(Machine, i, j, TRUE, marks, Moved)) :
               Commit(assign(Machine, i, j, TRUE, marks, g),
                      [Call("move_assign", i, j) EXCEPT !.cat = "&&"])

\* r goes out of scope:              ~ResultBase()
Destroy ==
    \E i \in Slots :
        /\ CanOperate /\ results[i].alive
        /\ Commit(DtorResultBase(Machine, i), Call("destroy", i, 0))

\* r.is_ok()
IsOk ==
    \E i \in Slots :
        /\ CanOperate /\ results[i].alive
        /\ Commit([Machine EXCEPT !.truth = is_ok(results[i])],
                  [Call("is_ok", i, 0) EXCEPT !.cat = "const&"])

\* r.is_err()
IsErr ==
    \E i \in Slots :
        /\ CanOperate /\ results[i].alive
        /\ Commit([Machine EXCEPT !.truth = is_err(results[i])],
                  [Call("is_err", i, 0) EXCEPT !.cat = "const&"])

\* r.unwrap(), std::move(r).unwrap(), ...
Unwrap ==
    \E i \in Slots, cat \in Cats :
        /\ CanOperate /\ results[i].alive
        /\ \E marks \in Marks(cat) :
           \E g \in Garbage(unwrap_impl(Machine, i, cat, marks, Moved)) :
               Commit(unwrap_impl(Machine, i, cat, marks, g),
                      [Call("unwrap", i, 0) EXCEPT !.cat = cat])

\* r.unwrap_err(), std::move(r).unwrap_err(), ...
UnwrapErr ==
    \E i \in Slots, cat \in Cats :
        /\ CanOperate /\ results[i].alive
        /\ \E marks \in Marks(cat) :
           \E g \in Garbage(unwrap_err_impl(Machine, i, cat, marks, Moved)) :
               Commit(unwrap_err_impl(Machine, i, cat, marks, g),
                      [Call("unwrap_err", i, 0) EXCEPT !.cat = cat])

\* r.unwrap_or_else(f) const&, std::move(r).unwrap_or_else(f)
UnwrapOrElse ==
    \E i \in Slots, f \in Fallbacks, cat \in {"const&", "&&"} :
        /\ CanOperate /\ results[i].alive
        /\ \E marks \in Marks(cat) :
           \E g \in Garbage(unwrap_or_else_impl(Machine, i, f, cat, marks, Moved)) :
               Commit(unwrap_or_else_impl(Machine, i, f, cat, marks, g),
                      [Call("unwrap_or_else", i, 0) EXCEPT !.cat = cat, !.arg = f])

\* r.expect(msg), std::move(r).expect(msg), ...
Expect ==
    \E i \in Slots, msg \in Msgs, cat \in Cats :
        /\ CanOperate /\ results[i].alive
        /\ \E marks \in Marks(cat) :
           \E g \in Garbage(expect_impl(Machine, i, msg, cat, marks, Moved)) :
               Commit(expect_impl(Machine, i, msg, cat, marks, g),
                      [Call("expect", i, 0) EXCEPT !.cat = cat, !.arg = msg])

\* result_example(success).unwrap() / result_example(success).unwrap_err()
ResultExample ==
    \E success \in BOOLEAN :
        LET tmp == Temporary(result_example(success))
            arg == IF success THEN "true" ELSE "false"
        IN  /\ CanOperate
            /\ \/ \E g \in Garbage(unwrap_impl(tmp, 0, "&&", FALSE, Moved)) :
                      CommitTemporary(unwrap_impl(tmp, 0, "&&", FALSE, g),
                                      "example_unwrap", arg)
               \/ \E g \in Garbage(unwrap_err_impl(tmp, 0, "&&", FALSE, Moved)) :
                      CommitTemporary(unwrap_err_impl(tmp, 0, "&&", FALSE, g),
                                      "example_unwrap_err", arg)
            /\ UNCHANGED <<runPc, led>>

\* run() up to the loop: result_example(true).unwrap();
RunStart ==
    /\ CanOperate /\ runPc = "start"
    /\ \E g \in Garbage(run(Moved)) :
           /\ CommitTemporary(run(g), "run", "true")
           /\ runPc' = IF run(g).halted THEN "start" ELSE "loop"
    /\ UNCHANGED led

\* while (true) { HAL_GPIO_TogglePin(...); HAL_Delay(1000); }
RunLoop ==
    /\ CanOperate /\ runPc = "loop"
    /\ led' = ~led
    /\ UNCHANGED <<results, trivDtor, constructed, destructed, ub, last, halted, runPc,
                   trivial>>

\* The caller has taken the outcome of the operation and goes on.
Continue ==
    /\ ~halted /\ last # NoOp
    /\ last' = NoOp
    /\ UNCHANGED <<results, trivDtor, constructed, destructed, ub, halted, runPc, led,
                   trivial>>

Next ==
    \/ FromOk
    \/ FromErr
    \/ CopyConstruct
    \/ MoveConstruct
    \/ CopyAssign
    \/ MoveAssign
    \/ Destroy
    \/ IsOk
    \/ IsErr
    \/ Unwrap
    \/ UnwrapErr
    \/ UnwrapOrElse
    \/ Expect
    \/ ResultExample
    \/ RunStart
    \/ RunLoop
    \/ Continue

Spec == Init /\ [][Next]_vars

\* ------------------------------------------------------------------ claims
Live(r, f) == r[f] # <<>>

AllDestroyed == \A i \in Slots : ~results[i].alive

\* C1: every Result that is constructed and not yet destroyed has exactly one
\* of its two payload storages live, and its discriminant is true exactly
\* when the live storage is the ok (T) storage.
C1_ExactlyOneStorageLive ==
    \A i \in Slots :
        results[i].alive =>
            /\ Live(results[i], "ok") # Live(results[i], "err")
            /\ results[i].is_ok_ = Live(results[i], "ok")

\* A cross-variant assignment has just replaced the payload of a live Result.
C1_Witness ==
    /\ last.op \in {"copy_assign", "move_assign"}
    /\ \E k \in 1..Len(last.log) : last.log[k].ev = "construct"
    /\ results[last.dst].alive /\ results[last.src].alive

\* C2: for an instrumented payload type (one with a non-trivial destructor),
\* once every Result has been destroyed the number of payload destructions
\* equals the number of payload constructions, and no destructor ever ran on
\* a storage without a live object (no leak, no double destruct).
C2_ConstructionsEqualDestructions ==
    /\ ~ub
    /\ AllDestroyed =>
           \A f \in Members : ~trivDtor[f] => constructed[f] = destructed[f]

\* Every Result is destroyed after a run with a copy or assignment that
\* constructed and destructed payloads of both instrumented types.
C2_Witness ==
    /\ AllDestroyed /\ last.op = "destroy"
    /\ \A f \in Members : ~trivDtor[f] /\ destructed[f] >= 1
    /\ constructed["ok"] + constructed["err"] >= 3

\* C3: a Result constructed from Ok(t) has is_ok() true, is_err() false and
\* unwrap() returns t without panicking; a Result constructed from Err(e) has
\* is_err() true, is_ok() false and unwrap_err() returns e without panicking.
C3_ConstructedVariantAndValue ==
    /\ last.op = "from_ok" =>
           LET r == results[last.dst]
               u == unwrap_impl(Machine, last.dst, "const&", FALSE, Moved)
           IN  /\ is_ok(r) /\ ~is_err(r)
               /\ u.ret = <<last.val>> /\ ~u.halted /\ ~u.ub
    /\ last.op = "from_err" =>
           LET r == results[last.dst]
               u == unwrap_err_impl(Machine, last.dst, "const&", FALSE, Moved)
           IN  /\ is_err(r) /\ ~is_ok(r)
               /\ u.ret = <<last.val>> /\ ~u.halted /\ ~u.ub

\* Results have been constructed from Ok(MaxVal) and from Err(-1).
C3_Witness ==
    /\ last.op = "from_err" /\ last.val = -1
    /\ \E i \in Slots : results[i].alive /\ results[i].ok = <<MaxVal>>

\* C4: unwrap() on an Err-variant Result calls panic with the message
\* "unwrap" and does not return: the process is terminated, nothing is
\* returned and the ok storage is not read.  unwrap_err() on an Ok-variant
\* Result does the same with the message "unwrap_err" and the err storage.
C4_WrongVariantExtractionPanics ==
    [][/\ (last'.op = "unwrap" /\ is_err(results[last'.dst])) =>
              /\ last'.panicMsg = "unwrap" /\ halted'
              /\ last'.ret = <<>> /\ ~ub' /\ results' = results
       /\ (last'.op = "unwrap_err" /\ is_ok(results[last'.dst])) =>
              /\ last'.panicMsg = "unwrap_err" /\ halted'
              /\ last'.ret = <<>> /\ ~ub' /\ results' = results
       /\ (last'.op = "example_unwrap" /\ last'.arg = "false") =>
              last'.panicMsg = "unwrap" /\ halted' /\ last'.ret = <<>>
       /\ (last'.op = "example_unwrap_err" /\ last'.arg = "true") =>
              last'.panicMsg = "unwrap_err" /\ halted' /\ last'.ret = <<>>
      ]_vars

\* unwrap_err() was called on an Ok-variant Result of the pool.
C4_Witness ==
    /\ last.op = "unwrap_err" /\ is_ok(results[last.dst])
    /\ halted /\ last.panicMsg = "unwrap_err"

\* C5: expect(msg) on an Err-variant Result calls panic with exactly msg (not
\* the generic "unwrap") and does not return; on an Ok-variant Result it
\* returns the success payload and does not call panic.
C5_ExpectPanicsWithCallerMessage ==
    [][last'.op = "expect" =>
          IF is_err(results[last'.dst])
          THEN /\ last'.panicMsg = last'.arg /\ last'.panicMsg # "unwrap"
               /\ halted' /\ last'.ret = <<>> /\ ~ub'
          ELSE /\ last'.ret = results[last'.dst].ok
               /\ last'.panicMsg = "" /\ ~halted' /\ ~ub'
      ]_vars

\* expect("custom") was called on an Err-variant Result.
C5_Witness ==
    /\ last.op = "expect" /\ is_err(results[last.dst])
    /\ halted /\ last.panicMsg = "custom"

\* C6: unwrap_or_else(f) on an Ok-variant Result returns the success payload
\* without calling f; on an Err-variant Result it calls f once, with the
\* error payload, and returns f's result; panic is called in neither case.
\* Err{-1} with f(e) = e * -1 yields 1, and Ok{1} yields 1.
C6_UnwrapOrElseRecovers ==
    [][last'.op = "unwrap_or_else" =>
          LET r == results[last'.dst]
          IN  /\ last'.panicMsg = "" /\ ~halted' /\ ~ub'
              /\ is_ok(r) => last'.ret = r.ok /\ last'.fCalls = 0
              /\ is_err(r) =>
                     /\ last'.fCalls = 1 /\ Live(r, "err")
                     /\ last'.ret = <<ApplyF(last'.arg, r.err[1])>>
              /\ (is_err(r) /\ r.err = <<-1>> /\ last'.arg = "negate") =>
                     last'.ret = <<1>>
              /\ (is_ok(r) /\ r.ok = <<1>>) => last'.ret = <<1>>
      ]_vars

\* unwrap_or_else(f) with f(e) = e * -1 was called on Err{-1}.
C6_Witness ==
    /\ last.op = "unwrap_or_else" /\ last.arg = "negate"
    /\ is_err(results[last.dst]) /\ last.fCalls = 1 /\ last.ret = <<1>>

\* The member a Result's discriminant names.
Active(r) == IF r.is_ok_ THEN "ok" ELSE "err"

IsAssign(op) == op \in {"copy_assign", "move_assign"}

\* C7: assigning, by copy or by move, a Result of one variant over a distinct
\* Result of the other variant destroys exactly one instance of the
\* destination's old payload (one destructor call of the instrumented old
\* payload type, none of the new one), constructs exactly one instance of the
\* new payload in the destination (and none of the old type), and leaves the
\* destination's discriminant equal to the source's.
C7_CrossVariantAssignCounts ==
    [][(IsAssign(last'.op) /\ results[last'.dst].is_ok_ # results[last'.src].is_ok_) =>
          LET d    == last'.dst
              old  == Active(results[d])
              new  == Other(old)
          IN  /\ destructed'[old] = destructed[old] + (IF trivDtor[old] THEN 0 ELSE 1)
              /\ destructed'[new] = destructed[new]
              /\ constructed'[new] = constructed[new] + 1
              /\ constructed'[old] = constructed[old]
              /\ ~Live(results'[d], old) /\ Live(results'[d], new)
              /\ \A k \in 1..Len(last'.log) : last'.log[k].slot = d
              /\ results'[d].is_ok_ = results[last'.src].is_ok_
              /\ ~ub'
      ]_vars

\* An Err of an instrumented type was move-assigned over an Ok of an
\* instrumented type.
C7_Witness ==
    /\ last.op = "move_assign" /\ ~trivDtor["ok"] /\ ~trivDtor["err"]
    /\ Len(last.log) = 3 /\ last.log[1].ev = "destroy" /\ last.log[1].at = "ok"
    /\ is_err(results[last.dst])

IsCopy(op) == op \in {"copy_construct", "copy_assign"}

\* C8: copy-constructing or copy-assigning a Result, for every combination of
\* source and destination variants, leaves the destination with the source's
\* variant and a payload equal to the source's, and leaves the source's
\* discriminant and payload as they were before the copy.
C8_CopyPreservesSourceAndValue ==
    [][IsCopy(last'.op) =>
          LET d == last'.dst
              j == last'.src
              f == Active(results[j])
          IN  /\ results'[d].alive
              /\ results'[d].is_ok_ = results[j].is_ok_
              /\ Live(results'[d], f) /\ results'[d][f] = results[j][f]
              /\ ~Live(results'[d], Other(f))
              /\ results'[j] = results[j]
              /\ ~ub'
      ]_vars

\* An Err was copy-assigned over an Ok held in another slot.
C8_Witness ==
    /\ last.op = "copy_assign" /\ last.src # last.dst
    /\ Len(last.log) >= 2
    /\ is_err(results[last.dst]) /\ results[last.dst].err = results[last.src].err

IsMove(op) == op \in {"move_construct", "move_assign"}

\* Destroying the source of the last operation runs one destructor (of an
\* instrumented payload type), on the live storage its discriminant names.
SourceDestructible ==
    LET j == last.src
        f == Active(results[j])
        d == DtorResultBase(Machine, j)
    IN  /\ results[j].alive /\ Live(results[j], f) /\ ~Live(results[j], Other(f))
        /\ ~d.ub
        /\ d.destructed[f] = destructed[f] + (IF trivDtor[f] THEN 0 ELSE 1)
        /\ d.destructed[Other(f)] = destructed[Other(f)]

\* What a move leaves behind: the destination has the source's pre-move
\* variant and payload value; the source keeps its discriminant and a live
\* payload of that variant (its old value or the moved-from one) and can be
\* destroyed by exactly one destructor call on a live storage.
MoveOutcome ==
    LET d == last'.dst
        j == last'.src
        f == Active(results[j])
    IN  /\ results'[d].alive
        /\ results'[d].is_ok_ = results[j].is_ok_
        /\ results'[d][f] = results[j][f] /\ Live(results'[d], f)
        /\ ~Live(results'[d], Other(f))
        /\ results'[j].is_ok_ = results[j].is_ok_
        /\ results'[j][f] \in {results[j][f], <<Moved>>}
        /\ SourceDestructible'
        /\ ~ub'

\* C9 as stated: move-constructing or move-assigning a Result from any source,
\* the destination itself included, leaves the destination with the source's
\* pre-move variant and payload value and the source destructible.
C9_MoveFromAnySource ==
    [][IsMove(last'.op) => MoveOutcome]_vars

\* C9, amended: move-constructing or move-assigning a Result from a source
\* that is another object than the destination leaves the destination with
\* the source's pre-move variant and pre-move payload value; the moved-from
\* source keeps its discriminant and a live (moved-from) payload of that
\* variant, so that destroying it afterwards runs exactly one destructor on a
\* live storage.
C9_MoveTransfersPayload ==
    [][(IsMove(last'.op) /\ last'.src # last'.dst) => MoveOutcome]_vars

\* An Ok was move-constructed from a source whose payload is now moved-from.
C9_Witness ==
    /\ last.op = "move_construct"
    /\ results[last.src].ok = <<Moved>> /\ results[last.dst].ok \in {<<1>>, <<MaxVal>>}

\* C10: result_example(true) is an Ok carrying 1 and result_example(false) an
\* Err carrying -1; result_example(true).unwrap() returns 1 and
\* result_example(false).unwrap_err() returns -1; the call
\* result_example(true).unwrap() at the start of run() returns without
\* calling panic and run() goes on to its loop.
C10_ResultExample ==
    /\ is_ok(result_example(TRUE)) /\ result_example(TRUE).ok = <<1>>
    /\ is_err(result_example(FALSE)) /\ result_example(FALSE).err = <<-1>>
    /\ (last.op = "example_unwrap" /\ last.arg = "true") =>
           last.ret = <<1>> /\ last.panicMsg = "" /\ ~halted
    /\ (last.op = "example_unwrap_err" /\ last.arg = "false") =>
           last.ret = <<-1>> /\ last.panicMsg = "" /\ ~halted
    /\ last.op = "run" =>
           last.ret = <<1>> /\ last.panicMsg = "" /\ ~halted /\ runPc = "loop"

\* run() has executed result_example(true).unwrap() and toggles the pin.
C10_Witness == last.op = "run" /\ runPc = "loop" /\ ~halted

\* The last operation was an assignment that constructed a payload in its
\* destination, i.e. a cross-variant assignment.
CrossVariantAssigned ==
    /\ IsAssign(last.op)
    /\ \E k \in 1..Len(last.log) : last.log[k].ev = "construct"

\* C11: in a cross-variant assignment the steps on the destination occur in
\* this order: the old live payload is destroyed (by a destructor call when
\* its type has a non-trivial destructor), then the new payload is
\* constructed from the source, then the discriminant is flipped; after no
\* step are both storages of the destination live.
C11_CrossVariantAssignOrder ==
    CrossVariantAssigned =>
        LET L   == last.log
            T   == last.trace
            n   == Len(L)
            new == L[n - 1].at
            old == Other(new)
        IN  /\ Len(T) = n
            /\ n = (IF trivDtor[old] THEN 2 ELSE 3)
            /\ ~trivDtor[old] =>
                   /\ L[1] = Event("destroy", last.dst, old)
                   /\ ~Live(T[1], old) /\ ~Live(T[1], new)
                   /\ T[1].is_ok_ = (old = "ok")
            /\ L[n - 1] = Event("construct", last.dst, new)
            /\ Live(T[n - 1], new) /\ T[n - 1].is_ok_ = (old = "ok")
            /\ L[n] = Event(IF new = "ok" THEN "is_ok_=true" ELSE "is_ok_=false",
                            last.dst, "is_ok_")
            /\ T[n].is_ok_ = (new = "ok")
            /\ \A k \in 1..n : ~(Live(T[k], "ok") /\ Live(T[k], "err"))

\* An Ok was copy-assigned over an Err of an instrumented type: the Err
\* payload was destroyed first.
C11_Witness ==
    /\ last.op = "copy_assign" /\ Len(last.trace) = 3
    /\ last.log[1].ev = "destroy" /\ last.log[1].at = "err"
    /\ is_ok(results[last.dst])

\* C12: assigning a Result to itself, by copy or by move, in either variant,
\* takes the in-place payload assignment branch only: one payload assignment
\* on the active member, no destructor and no constructor call, no read of a
\* destroyed payload, and the discriminant and the live storage are the ones
\* from before.
C12_SelfAssignInPlace ==
    [][(IsAssign(last'.op) /\ last'.src = last'.dst) =>
          LET d == last'.dst
              f == Active(results[d])
          IN  /\ last'.log = <<Event("assign", d, f)>>
              /\ constructed' = constructed /\ destructed' = destructed
              /\ results'[d].is_ok_ = results[d].is_ok_
              /\ Live(results[d], f) /\ Live(results'[d], f)
              /\ ~Live(results'[d], Other(f))
              /\ ~ub'
      ]_vars

\* An Err of an instrumented type was move-assigned to itself.
C12_Witness ==
    /\ last.op = "move_assign" /\ last.src = last.dst
    /\ is_err(results[last.dst]) /\ ~trivDtor["err"]
    /\ Len(last.log) = 1

\* What a same-variant assignment does to its destination: one payload
\* assignment in place, no payload destructor or constructor call, the
\* discriminant and the inactive storage as before, and the payload equal to
\* the source's payload from before the assignment.
InPlaceOutcome ==
    LET d == last'.dst
        j == last'.src
        f == Active(results[j])
    IN  /\ last'.log = <<Event("assign", d, f)>>
        /\ constructed' = constructed /\ destructed' = destructed
        /\ results'[d].is_ok_ = results[d].is_ok_
        /\ results'[d][Other(f)] = results[d][Other(f)]
        /\ ~Live(results'[d], Other(f))
        /\ Live(results'[d], f) /\ results'[d][f] = results[j][f]
        /\ ~ub'

SameVariantAssign ==
    IsAssign(last'.op) /\ results[last'.dst].is_ok_ = results[last'.src].is_ok_

\* C13 as stated: whenever source and destination of an assignment hold the
\* same variant, the source being the destination itself included, the
\* payload is assigned in place and afterwards equals the source's
\* pre-assignment payload.
C13_SameVariantAssignAnySource ==
    [][SameVariantAssign => InPlaceOutcome]_vars

\* C13, amended: when source and destination of an assignment hold the same
\* variant and the assignment is a copy or its source is another object than
\* its destination, the payload is assigned in place: no payload destructor
\* or constructor call on the destination, discriminant and inactive storage
\* unchanged, and afterwards the payload equals the source's pre-assignment
\* payload.
C13_SameVariantAssignInPlace ==
    [][(SameVariantAssign /\ (last'.op = "copy_assign" \/ last'.src # last'.dst))
          => InPlaceOutcome]_vars

\* An Ok carrying MaxVal was move-assigned over an Ok in another slot.
C13_Witness ==
    /\ last.op = "move_assign" /\ last.src # last.dst
    /\ last.log = <<Event("assign", last.dst, "ok")>>
    /\ results[last.dst].ok = <<MaxVal>>
    /\ last.trace[1].ok = <<MaxVal>>

\* C14: destroying a Result calls the destructor of exactly the payload its
\* discriminant names (T's if ok, E's if err), and only when that payload
\* type is not trivially destructible; it never calls a destructor on the
\* inactive storage.
C14_DestructorOfActivePayloadOnly ==
    [][last'.op = "destroy" =>
          LET d == last'.dst
              f == Active(results[d])
          IN  /\ Live(results[d], f) /\ ~Live(results[d], Other(f))
              /\ last'.log = (IF trivDtor[f] THEN <<>>
                              ELSE <<Event("destroy", d, f)>>)
              /\ destructed'[f] = destructed[f] + (IF trivDtor[f] THEN 0 ELSE 1)
              /\ destructed'[Other(f)] = destructed[Other(f)]
              /\ constructed' = constructed
              /\ ~results'[d].alive
              /\ ~ub'
      ]_vars

\* An Err was destroyed where the Err type is instrumented and the Ok type
\* is not: one destructor call, on the err member.
C14_Witness ==
    /\ last.op = "destroy" /\ trivDtor["ok"] /\ ~trivDtor["err"]
    /\ last.log = <<Event("destroy", last.dst, "err")>>
    /\ destructed["err"] >= 1

\* The last operation was a call of is_ok() or is_err().
IsQuery(op) == op \in {"is_ok", "is_err"}

\* C15: for every live Result exactly one of is_ok() and is_err() is true,
\* never both and never neither; a call of either returns that answer and
\* changes neither the discriminant nor the payload of any Result.
C15_ExactlyOneOfIsOkIsErr ==
    /\ [](\A i \in Slots :
              results[i].alive => (is_ok(results[i]) # is_err(results[i])))
    /\ [][IsQuery(last'.op) =>
              /\ results' = results
              /\ constructed' = constructed /\ destructed' = destructed
              /\ last'.log = <<>>
              /\ last'.truth = (IF last'.op = "is_ok"
                                THEN Live(results[last'.dst], "ok")
                                ELSE Live(results[last'.dst], "err"))
              /\ ~halted' /\ ~ub'
        ]_vars

\* is_err() was called on an Err holding a moved-from payload and answered
\* true.
C15_Witness ==
    /\ last.op = "is_err" /\ last.truth
    /\ results[last.dst].alive /\ results[last.dst].err = <<Moved>>
    /\ is_err(results[last.dst]) /\ ~is_ok(results[last.dst])

IsExtraction(op) == op \in {"unwrap", "unwrap_err", "unwrap_or_else", "expect"}

\* Destroying the Result the last operation was called on runs one
\* destructor (of an instrumented payload type), on the live storage its
\* discriminant names, and none on the other storage.
ExtractedDestructible ==
    LET i == last.dst
        f == Active(results[i])
        d == DtorResultBase(Machine, i)
    IN  /\ results[i].alive /\ Live(results[i], f) /\ ~Live(results[i], Other(f))
        /\ ~d.ub
        /\ d.destructed[f] = destructed[f] + (IF trivDtor[f] THEN 0 ELSE 1)
        /\ d.destructed[Other(f)] = destructed[Other(f)]

\* C16: every extraction that returns (unwrap, unwrap_err, expect,
\* unwrap_or_else, called on an lvalue or an rvalue, const or not) leaves the
\* discriminant of the Result unchanged and its payload live (with its old
\* value or moved-from) and destructible: no payload is constructed or
\* destroyed by the extraction, and a later destruction of the Result
\* destroys exactly one payload.
C16_ExtractionKeepsPayloadLive ==
    [][(IsExtraction(last'.op) /\ ~halted') =>
          LET i == last'.dst
              f == Active(results[i])
          IN  /\ last'.ret # <<>>
              /\ results'[i].is_ok_ = results[i].is_ok_
              /\ results'[i][f] \in {results[i][f], <<Moved>>}
              /\ results'[i][f] = <<Moved>> =>
                     (results[i][f] = <<Moved>> \/ last'.cat = "&&")
              /\ \A k \in Slots \ {i} : results'[k] = results[k]
              /\ constructed' = constructed /\ destructed' = destructed
              /\ last'.log = <<>>
              /\ ExtractedDestructible'
              /\ ~ub'
      ]_vars

\* unwrap_or_else was called on an rvalue Err of an instrumented type and
\* moved from its payload, which is still there.
C16_Witness ==
    /\ last.op = "unwrap_or_else" /\ last.cat = "&&" /\ last.fCalls = 1
    /\ ~trivDtor["err"] /\ last.ret # <<>> /\ last.ret # <<Moved>>
    /\ results[last.dst].err = <<Moved>> /\ is_err(results[last.dst])

\* C17: for payload types that are trivially copyable, movable and
\* destructible, after every sequence of constructions from Ok and Err,
\* copies, moves, assignments (and destructions), every Result, source and
\* destination alike, has in the ResultBase<T, E, false> storage the same
\* discriminant and the same live payload as in the ResultBase<T, E, true>
\* storage.
C17_TrivialPathEquivalent ==
    trivial # NoTrivialPath =>
        \A i \in Slots :
            /\ results[i].alive = trivial[i].alive
            /\ results[i].is_ok_ = trivial[i].is_ok_
            /\ results[i].ok = trivial[i].ok
            /\ results[i].err = trivial[i].err

\* With trivial payload types an Err was move-assigned over an Ok held in
\* another slot, and both storages have it there.
C17_Witness ==
    /\ trivial # NoTrivialPath
    /\ last.op = "move_assign" /\ last.src # last.dst
    /\ Len(last.log) = 2 /\ last.log[1].ev = "construct"
    /\ trivial[last.dst].alive /\ ~trivial[last.dst].is_ok_
    /\ trivial[last.dst].err = results[last.src].err

\* The step calls panic.
PanicInvoked == (halted' /\ ~halted) \/ (last' # last /\ last'.panicMsg # "")

\* The operation of the step is an extraction on the variant it does not
\* extract: unwrap or expect on an Err, unwrap_err on an Ok (of the pool or
\* the temporary result_example returns).
WrongVariantExtraction ==
    \/ /\ last'.op \in {"unwrap", "expect"}
       /\ results[last'.dst].alive /\ is_err(results[last'.dst])
    \/ /\ last'.op = "unwrap_err"
       /\ results[last'.dst].alive /\ is_ok(results[last'.dst])
    \/ /\ last'.op = "example_unwrap" /\ is_err(result_example(last'.arg = "true"))
    \/ /\ last'.op = "example_unwrap_err" /\ is_ok(result_example(last'.arg = "true"))

\* C18: panic is called only by unwrap or expect on an Err and by unwrap_err
\* on an Ok: no construction, copy, move, assignment, destruction, is_ok,
\* is_err, unwrap_or_else or extraction on the matching variant calls it;
\* a step that calls it changes no Result, and once it has been called the
\* caller executes no further operation.
C18_PanicOnlyOnWrongVariant ==
    [][/\ PanicInvoked =>
              /\ WrongVariantExtraction
              /\ halted' /\ last'.panicMsg # "" /\ last'.ret = <<>>
              /\ results' = results
       /\ ~halted
      ]_vars

\* unwrap was called on a const rvalue Err and the process was terminated
\* with nothing returned.
C18_Witness ==
    /\ halted /\ last.op = "unwrap" /\ last.cat = "const&&"
    /\ last.panicMsg = "unwrap" /\ last.ret = <<>> /\ last.log = <<>>
    /\ is_err(results[last.dst])

====
